---- MODULE Spec2Model ----
(***************************************************************************)
(* UpdateAnnotationForGenomeStep of CAMPAREE                               *)
(* (src/camparee/update_annotation_for_genome.py): runs of execute() for   *)
(* one job, with the files they leave on disk.  The three input files are  *)
(* fixed before a run starts; the run loads the ploidy table, builds the   *)
(* per-chromosome rolling offsets from the indel file one line at a time,  *)
(* opens its two output files, streams the annotation one line at a time   *)
(* and finally writes the "ALL DONE!" line.  A run that raises stops where *)
(* it is.  A job may be run again, and a second invocation (another sample *)
(* or genome copy) may write its own files while the first one runs.       *)
(***************************************************************************)
EXTENDS Integers, Sequences, FiniteSets

VARIABLES
    gender,                         \* sample.gender
    genome_indel_suffix,            \* 1 or 2
    ploidy_file,                    \* lines after the header, each the sequence
                                    \* of its tab-separated fields (text)
    indel_file,                     \* lines [chrom, pos, type, len]
    annot_file,                     \* lines of the input annotation
    missing,                        \* the input files that do not exist
    sample_id,                      \* sample.sample_id
    data_directory_path,
    log_directory_path,
    pc,                             \* position of execute()
    error,                          \* where the run raised, "" if it did not
    chr_ploidy,                     \* self.chr_ploidy (dict, insertion ordered)
    desired_chromosomes,            \* list of eligible chromosomes
    variant_offsets,                \* dict chrom -> OrderedDict pos -> offset
    rolling_offset,
    curr_chrom,                     \* the builder's current chromosome
    indel_idx,                      \* indel lines consumed
    indel_offsets,                  \* the builder's result, as execute() holds it
    current_chrom,                  \* the rewriter's current chromosome
    current_chrom_variant_coords,
    current_chrom_variant_offsets,
    annot_idx,                      \* annotation lines consumed
    fs,                             \* the files on disk: path -> lines
    run,                            \* number of the run of this job
    history,                        \* the runs of this job that have ended
    disturbed,                      \* the other invocation wrote during this run
    other_pc,                       \* position of the other invocation
    other_sample_id,
    other_suffix

inputs == <<gender, genome_indel_suffix, ploidy_file, indel_file, annot_file,
            missing, sample_id, data_directory_path, log_directory_path>>
ploidyVars == <<chr_ploidy, desired_chromosomes>>
builderVars == <<variant_offsets, rolling_offset, curr_chrom, indel_idx>>
rewriterVars == <<indel_offsets, current_chrom, current_chrom_variant_coords,
                  current_chrom_variant_offsets, annot_idx, fs>>
runVars == <<run, history, disturbed>>
otherVars == <<other_pc, other_sample_id, other_suffix>>
vars == <<inputs, pc, error, ploidyVars, builderVars, rewriterVars, runVars,
          otherVars>>

-----------------------------------------------------------------------------
(* Bounds of the input files.                                              *)

MaxIndels == 2
MaxLines == 3
MaxExons == 2
MaxPloidyRows == 2
MaxBuildIndels == 3
MaxRuns == 3
MaxOtherLines == 1

SeqsUpTo(S, n) == UNION {[1..k -> S] : k \in 0..n}

-----------------------------------------------------------------------------
(* Python dicts keep insertion order: a dict is a sequence of <<key,       *)
(* value>> pairs with distinct keys; assigning an existing key keeps the   *)
(* key's place and replaces its value.                                     *)

DictHas(d, k) == \E i \in 1..Len(d) : d[i][1] = k

DictGet(d, k) == d[CHOOSE i \in 1..Len(d) : d[i][1] = k][2]

DictSet(d, k, v) ==
    IF DictHas(d, k)
    THEN [i \in 1..Len(d) |-> IF d[i][1] = k THEN <<k, v>> ELSE d[i]]
    ELSE Append(d, <<k, v>>)

DictKeys(d) == [i \in 1..Len(d) |-> d[i][1]]

DictValues(d) == [i \in 1..Len(d) |-> d[i][2]]

(* list[i] with Python's 0-based index; a negative index counts from the   *)
(* end of the list.                                                        *)
PyIndex(list, i) == IF i < 0 THEN list[Len(list) + i + 1] ELSE list[i + 1]

(* bisect.bisect_right(a, x): the binary search of the standard library,   *)
(* which on a sorted list returns the number of elements <= x.             *)
RECURSIVE BisectLoop(_, _, _, _)
BisectLoop(a, x, lo, hi) ==
    IF lo < hi
    THEN LET mid == (lo + hi) \div 2
         IN IF x < a[mid + 1]
            THEN BisectLoop(a, x, lo, mid)
            ELSE BisectLoop(a, x, mid + 1, hi)
    ELSE lo

RECURSIVE BisectLeftLoop(_, _, _, _)
BisectLeftLoop(a, x, lo, hi) ==
    IF lo < hi
    THEN LET mid == (lo + hi) \div 2
         IN IF a[mid + 1] < x
            THEN BisectLeftLoop(a, x, mid + 1, hi)
            ELSE BisectLeftLoop(a, x, lo, mid)
    ELSE lo

BisectLeft(a, x) == BisectLeftLoop(a, x, 0, Len(a))

BisectRight(a, x) == BisectLoop(a, x, 0, Len(a))

-----------------------------------------------------------------------------
(* Ploidy table: _get_chr_ploidy_from_file and the eligible chromosomes.   *)

(* A line of the ploidy file is the sequence of the texts between its     *)
(* tabs.  str.strip() takes the whitespace off both ends of the line, tabs *)
(* included, so the empty fields at either end go; "".split("\t") is [""]. *)
RECURSIVE DropLeadingBlank(_)
DropLeadingBlank(fields) ==
    IF fields # <<>> /\ Head(fields) = ""
    THEN DropLeadingBlank(Tail(fields)) ELSE fields

RECURSIVE DropTrailingBlank(_)
DropTrailingBlank(fields) ==
    IF fields # <<>> /\ fields[Len(fields)] = ""
    THEN DropTrailingBlank(SubSeq(fields, 1, Len(fields) - 1)) ELSE fields

(* line 322: line.strip().split("\t") *)
StripSplit(fields) ==
    LET kept == DropTrailingBlank(DropLeadingBlank(fields))
    IN IF kept = <<>> THEN <<"">> ELSE kept

(* int() of a text: the decimal numerals parse, any other text raises      *)
IsIntText(text) == text \in {"0", "1", "2", "3"}

ParseInt(text) ==
    CASE text = "0" -> 0
      [] text = "1" -> 1
      [] text = "2" -> 2
      [] text = "3" -> 3

PloidyLineRaisesUnstripped(fields) ==
    \/ Len(fields) # 3
    \/ ~IsIntText(fields[2])
    \/ ~IsIntText(fields[3])

(* lines 322-323: the unpacking into three names and the two int() raise   *)
(* ValueError                                                              *)
PloidyLineRaises(fields) ==
    LET line_data == StripSplit(fields)
    IN \/ Len(line_data) # 3
       \/ ~IsIntText(line_data[2])
       \/ ~IsIntText(line_data[3])

GetChrPloidyRaises(file) == \E i \in 1..Len(file) : PloidyLineRaises(file[i])

RECURSIVE LoadPloidyRows(_, _)
LoadPloidyRows(rows, dict) ==
    IF rows = <<>> THEN dict
    ELSE LET row == StripSplit(Head(rows))
         IN LoadPloidyRows(Tail(rows),
                           DictSet(dict, row[1],
                                   <<ParseInt(row[2]), ParseInt(row[3])>>))

GetChrPloidyFromFile(file) == LoadPloidyRows(file, <<>>)

GenderIndexAnyCase(g) == IF g \in {"female", "Female", "F"} THEN 1 ELSE 0

GenderIndexSwapped(g) == IF g = "female" THEN 0 ELSE 1

GenderIndex(g) == IF g = "female" THEN 1 ELSE 0

(* the comprehension of lines 85-86 over self.chr_ploidy.items() *)
RECURSIVE SelectDesired(_, _, _, _)
SelectDesired(items, gender_index, suffix, acc) ==
    IF items = <<>> THEN acc
    ELSE LET chromosome == Head(items)[1]
             ploidies == Head(items)[2]
         IN SelectDesired(Tail(items), gender_index, suffix,
                          IF PyIndex(ploidies, gender_index) >= suffix
                          THEN Append(acc, chromosome) ELSE acc)

DesiredChromosomesStrict(ploidy, g, suffix) ==
    SelectDesired(ploidy, GenderIndex(g), suffix + 1, <<>>)

DesiredChromosomes(ploidy, g, suffix) ==
    SelectDesired(ploidy, GenderIndex(g), suffix, <<>>)

InList(x, list) == \E i \in 1..Len(list) : list[i] = x

NotDesiredUnknownKept(chrom, desired, ploidy) ==
    DictHas(ploidy, chrom) /\ ~InList(chrom, desired)

(* line 143: current_chrom not in desired_chromosomes                      *)
NotDesired(chrom, desired, ploidy) == ~InList(chrom, desired)

-----------------------------------------------------------------------------
(* Indel offsets: one iteration of the loop of                             *)
(* _get_offsets_from_variant_file.                                         *)

SignedOffsetUnsigned(indel_type, indel_offset) == indel_offset

SignedOffset(indel_type, indel_offset) ==
    IF indel_type = "D" THEN indel_offset * (-1) ELSE indel_offset

RollingBaseNoReset(curr, indel_chrom, rolling) == rolling

(* lines 377-379: the rolling offset the line's own offset is added to     *)
RollingBase(curr, indel_chrom, rolling) ==
    IF curr # indel_chrom THEN 0 ELSE rolling

SetOffsetNewestFirst(offsets, indel_chrom, indel_position, rolling) ==
    LET inner == IF DictHas(offsets, indel_chrom)
                 THEN DictGet(offsets, indel_chrom) ELSE <<>>
    IN DictSet(offsets, indel_chrom, << <<indel_position, rolling>> >> \o inner)

(* variant_offsets[indel_chrom][indel_position] = rolling_offset, the      *)
(* defaultdict creating the chromosome's OrderedDict on first use          *)
SetOffset(offsets, indel_chrom, indel_position, rolling) ==
    LET inner == IF DictHas(offsets, indel_chrom)
                 THEN DictGet(offsets, indel_chrom) ELSE <<>>
    IN DictSet(offsets, indel_chrom, DictSet(inner, indel_position, rolling))

BuilderStepRecordBefore(state, line) ==
    LET base == RollingBase(state.curr_chrom, line.chrom, state.rolling_offset)
        rolling == base + SignedOffset(line.type, line.len)
    IN [variant_offsets |-> SetOffset(state.variant_offsets, line.chrom,
                                      line.pos, base),
        rolling_offset |-> rolling,
        curr_chrom |-> line.chrom]

(* lines 370-387: the body of the loop over the lines of the indel file *)
BuilderStep(state, line) ==
    LET indel_chrom == line.chrom
        indel_position == line.pos
        indel_offset == SignedOffset(line.type, line.len)
        rolling == RollingBase(state.curr_chrom, indel_chrom, state.rolling_offset)
                       + indel_offset
    IN [variant_offsets |-> SetOffset(state.variant_offsets, indel_chrom,
                                      indel_position, rolling),
        rolling_offset |-> rolling,
        curr_chrom |-> indel_chrom]

(* lines 365-389: the whole of _get_offsets_from_variant_file *)
RECURSIVE BuilderLoop(_, _)
BuilderLoop(state, lines) ==
    IF lines = <<>> THEN state
    ELSE BuilderLoop(BuilderStep(state, Head(lines)), Tail(lines))

GetOffsetsFromVariantFile(file) ==
    BuilderLoop([variant_offsets |-> <<>>, rolling_offset |-> 0,
                 curr_chrom |-> ""], file).variant_offsets

-----------------------------------------------------------------------------
(* Annotation lines.  A line is the record of its tab-separated columns;   *)
(* the coordinate columns hold the integers the code parses them to.  The  *)
(* lines whose first character is '#' are the header line and a feature    *)
(* line that has been commented out.                                       *)

HeaderLine ==
    [chrom |-> "#chrom", strand |-> "strand", txStart |-> 0, txEnd |-> 0,
     exonCount |-> 0, exonStarts |-> <<>>, exonEnds |-> <<>>,
     transcriptID |-> "transcriptID", geneID |-> "geneID",
     geneSymbol |-> "geneSymbol", biotype |-> "biotype"]

(* The first columns that begin with the character '#' *)
HashNames == {"#chrom", "#1"}

StartsWithHashHeaderOnly(annot_feature) == annot_feature.chrom = "#chrom"

(* annot_feature[0] == '#'                                                 *)
StartsWithHash(annot_feature) == annot_feature.chrom \in HashNames

(* lines 159-160, 179, 185, 207, 211: index of the closest indel           *)
(* coordinate <= coord, -1 when there is none                              *)
OffsetIndexLeft(coords, coord) == BisectLeft(coords, coord) - 1

OffsetIndex(coords, coord) == BisectRight(coords, coord) - 1

CheckedExonCoordNoCheck(coords, offsets, coord) ==
    coord + PyIndex(offsets, OffsetIndex(coords, coord))

(* lines 179-183 and 185-189: exon coordinate, index checked               *)
CheckedExonCoord(coords, offsets, coord) ==
    LET ex_coord_offset_index == OffsetIndex(coords, coord)
    IN IF ex_coord_offset_index >= 0
       THEN coord + PyIndex(offsets, ex_coord_offset_index)
       ELSE coord

(* lines 207-208 and 211-212: exon coordinate, index used as it is         *)
UncheckedExonCoord(coords, offsets, coord) ==
    LET ex_coord_offset_index == OffsetIndex(coords, coord)
    IN coord + PyIndex(offsets, ex_coord_offset_index)

SameOffsetExonsForgotten(exons, offset) == exons

SameOffsetExonsDroppingLast(exons, offset) ==
    [i \in 1..(Len(exons) - 1) |-> exons[i] + offset]

(* lines 197-198: the one offset added to every exon coordinate            *)
SameOffsetExons(exons, offset) == [i \in 1..Len(exons) |-> exons[i] + offset]

(* lines 149-213: the updated coordinates of a feature on a chromosome     *)
(* that has indels                                                         *)
UpdateCoordinates(line_data, coords, offsets) ==
    LET tx_start == line_data.txStart
        tx_end == line_data.txEnd
        exon_starts == line_data.exonStarts
        exon_ends == line_data.exonEnds
        tx_start_offset_index == OffsetIndex(coords, tx_start)
        tx_end_offset_index == OffsetIndex(coords, tx_end)
    IN IF tx_start_offset_index = -1
       THEN IF tx_end_offset_index = -1
            THEN [txStart |-> tx_start, txEnd |-> tx_end,
                  exonStarts |-> exon_starts, exonEnds |-> exon_ends]
            ELSE [txStart |-> tx_start,
                  txEnd |-> tx_end + PyIndex(offsets, tx_end_offset_index),
                  exonStarts |-> [i \in 1..Len(exon_starts) |->
                      CheckedExonCoord(coords, offsets, exon_starts[i])],
                  exonEnds |-> [i \in 1..Len(exon_ends) |->
                      CheckedExonCoord(coords, offsets, exon_ends[i])]]
       ELSE IF tx_start_offset_index = tx_end_offset_index
            THEN LET offset == PyIndex(offsets, tx_start_offset_index)
                 IN [txStart |-> tx_start + offset, txEnd |-> tx_end + offset,
                     exonStarts |-> SameOffsetExons(exon_starts, offset),
                     exonEnds |-> SameOffsetExons(exon_ends, offset)]
            ELSE [txStart |-> tx_start + PyIndex(offsets, tx_start_offset_index),
                  txEnd |-> tx_end + PyIndex(offsets, tx_end_offset_index),
                  exonStarts |-> [i \in 1..Len(exon_starts) |->
                      UncheckedExonCoord(coords, offsets, exon_starts[i])],
                  exonEnds |-> [i \in 1..Len(exon_ends) |->
                      UncheckedExonCoord(coords, offsets, exon_ends[i])]]

FormatLineGeneColumnsSwapped(line_data, updated) ==
    [chrom |-> line_data.chrom, strand |-> line_data.strand,
     txStart |-> updated.txStart, txEnd |-> updated.txEnd,
     exonCount |-> line_data.exonCount,
     exonStarts |-> updated.exonStarts, exonEnds |-> updated.exonEnds,
     transcriptID |-> line_data.transcriptID, geneID |-> line_data.geneSymbol,
     geneSymbol |-> line_data.geneID, biotype |-> line_data.biotype]

(* lines 216-230: the output line of an updated feature                    *)
FormatLine(line_data, updated) ==
    [chrom |-> line_data.chrom, strand |-> line_data.strand,
     txStart |-> updated.txStart, txEnd |-> updated.txEnd,
     exonCount |-> line_data.exonCount,
     exonStarts |-> updated.exonStarts, exonEnds |-> updated.exonEnds,
     transcriptID |-> line_data.transcriptID, geneID |-> line_data.geneID,
     geneSymbol |-> line_data.geneSymbol, biotype |-> line_data.biotype]

NewChromCoordsStale(offsets_by_chrom, chrom, old_coords) ==
    IF DictHas(offsets_by_chrom, chrom)
    THEN DictKeys(DictGet(offsets_by_chrom, chrom))
    ELSE old_coords

NewChromCoordsKept(offsets_by_chrom, chrom, old_coords) ==
    IF old_coords # <<>>
    THEN old_coords
    ELSE IF DictHas(offsets_by_chrom, chrom)
         THEN DictKeys(DictGet(offsets_by_chrom, chrom))
         ELSE <<>>

(* lines 126-141: current_chrom_variant_coords after a chromosome change   *)
NewChromCoords(offsets_by_chrom, chrom, old_coords) ==
    IF DictHas(offsets_by_chrom, chrom)
    THEN DictKeys(DictGet(offsets_by_chrom, chrom))
    ELSE <<>>

(* lines 126-141: current_chrom_variant_offsets after a chromosome change; *)
(* the else branch assigns current_chrom_variant_coords twice and leaves   *)
(* the offsets as they were                                                *)
NewChromOffsets(offsets_by_chrom, chrom, old_offsets) ==
    IF DictHas(offsets_by_chrom, chrom)
    THEN DictValues(DictGet(offsets_by_chrom, chrom))
    ELSE old_offsets

(* lines 124 and 139: the log lines of a chromosome change                 *)
LogLine(msg, chrom) == [msg |-> msg, chrom |-> chrom, end |-> "\n"]

(* a text written without a newline after it                               *)
UnterminatedLine(msg) == [msg |-> msg, chrom |-> "", end |-> ""]

NewChromLog(offsets_by_chrom, chrom) ==
    IF DictHas(offsets_by_chrom, chrom)
    THEN <<LogLine("Processing indels and annotated features from chromosome", chrom)>>
    ELSE <<LogLine("Processing indels and annotated features from chromosome", chrom),
           LogLine("----No indels from chromosome", chrom)>>

-----------------------------------------------------------------------------
(* Files on disk.  A path is the sequence of its parts, a file the         *)
(* sequence of its lines; fs maps the paths of the files that exist.       *)

FileExists(files, path) == path \in DOMAIN files

WriteFileAppending(files, path, lines) ==
    [p \in (DOMAIN files) \cup {path} |->
        IF p = path
        THEN IF path \in DOMAIN files THEN files[path] \o lines ELSE lines
        ELSE files[p]]

(* open(path, 'w') followed by writes: the file is created or replaced     *)
WriteFile(files, path, lines) ==
    [p \in (DOMAIN files) \cup {path} |-> IF p = path THEN lines ELSE files[p]]

AppendLinesBefore(files, path, lines) == WriteFile(files, path, lines \o files[path])

(* write() on a file opened before                                         *)
AppendLines(files, path, lines) == WriteFile(files, path, files[path] \o lines)

(* lines 50 and 52 with camparee_constants.py lines 95-98: the text before *)
(* and after {genome_name}.  The class takes its output pattern from the   *)
(* LOG constant and its log pattern from the OUTPUT constant.              *)
UPDATE_ANNOT_LOG_FILENAME_PATTERN == <<"updated_annotation_", ".txt">>

UPDATE_ANNOT_OUTPUT_FILENAME_PATTERN == <<"UpdateAnnotationForGenomeStep_", ".log">>

SampleDirectoryShared(directory, id) == <<directory, "sample", 0>>

(* os.path.join(directory, f'sample{sample_id}')                           *)
SampleDirectory(directory, id) == <<directory, "sample", id>>

(* lines 93-94 and 421-422 *)
UpdatedAnnotFilePath(data_directory, id, genome_name) ==
    SampleDirectory(data_directory, id)
        \o <<UPDATE_ANNOT_OUTPUT_FILENAME_PATTERN[1], genome_name,
             UPDATE_ANNOT_OUTPUT_FILENAME_PATTERN[2]>>

(* lines 95-96 and 423-424 *)
LogFilePath(log_directory, id, genome_name) ==
    SampleDirectory(log_directory, id)
        \o <<UPDATE_ANNOT_LOG_FILENAME_PATTERN[1], genome_name,
             UPDATE_ANNOT_LOG_FILENAME_PATTERN[2]>>

updated_annot_file_path ==
    UpdatedAnnotFilePath(data_directory_path, sample_id, genome_indel_suffix)

log_file_path == LogFilePath(log_directory_path, sample_id, genome_indel_suffix)

(* The lines of the job's output annotation, none while it does not exist  *)
updated_annot_file ==
    IF FileExists(fs, updated_annot_file_path) THEN fs[updated_annot_file_path]
    ELSE <<>>

(* The lines of the job's log, none while it does not exist                *)
log_file == IF FileExists(fs, log_file_path) THEN fs[log_file_path] ELSE <<>>

OpenedAnnotationNoHeader == <<>>

(* line 107: the output annotation right after it is opened                *)
OpenedAnnotation == <<HeaderLine>>

(* line 239: "\nALL DONE!" is an empty line and then the sentinel, with no *)
(* newline after it                                                        *)
SentinelLines == <<LogLine("", ""), UnterminatedLine("ALL DONE!")>>

(* line 432: rstrip() takes the newline off the end of the line; no line   *)
(* this step writes has other whitespace before its newline                *)
Rstrip(line) == [line EXCEPT !.end = ""]

(* lines 430-432: the value of `line` when the loop over the log ends      *)
RECURSIVE LastLogLine(_, _)
LastLogLine(lines, line) ==
    IF lines = <<>> THEN line
    ELSE LastLogLine(Tail(lines), Rstrip(Head(lines)))

IsOutputValidAnyLine(files, data_directory, log_directory, id, genome_name) ==
    LET output_path == UpdatedAnnotFilePath(data_directory, id, genome_name)
        log_path == LogFilePath(log_directory, id, genome_name)
    IN /\ FileExists(files, output_path)
       /\ FileExists(files, log_path)

(* lines 414-436: is_output_valid(validation_attributes)                   *)
IsOutputValid(files, data_directory, log_directory, id, genome_name) ==
    LET output_path == UpdatedAnnotFilePath(data_directory, id, genome_name)
        log_path == LogFilePath(log_directory, id, genome_name)
    IN /\ FileExists(files, output_path)
       /\ FileExists(files, log_path)
       /\ LastLogLine(files[log_path], UnterminatedLine(""))
              = UnterminatedLine("ALL DONE!")

FilesAfterFailedOpenTruncated(files, output_path, log_path) ==
    WriteFile(WriteFile(files, output_path, <<>>), log_path, <<>>)

(* lines 102-104: the with statement opens the input annotation first;     *)
(* when that raises, neither open(..., 'w') after it is reached            *)
FilesAfterFailedOpen(files, output_path, log_path) == files

(* lines 225-228: a line with fewer than eleven columns raises IndexError  *)
(* when the updated feature is formatted                                   *)
FormatRaises(line_data) ==
    ~({"transcriptID", "geneID", "geneSymbol", "biotype"} \subseteq DOMAIN line_data)

-----------------------------------------------------------------------------
(* The steps of execute().                                                 *)

(* lines 83-86; open() raises when the ploidy file does not exist          *)
LoadPloidy ==
    /\ pc = "start"
    /\ IF "ploidy" \in missing \/ GetChrPloidyRaises(ploidy_file)
       THEN /\ pc' = "failed"
            /\ error' = "ploidy"
            /\ UNCHANGED ploidyVars
       ELSE /\ chr_ploidy' = GetChrPloidyFromFile(ploidy_file)
            /\ desired_chromosomes' =
                   DesiredChromosomes(chr_ploidy', gender, genome_indel_suffix)
            /\ pc' = "builder"
            /\ UNCHANGED error
    /\ UNCHANGED <<inputs, builderVars, rewriterVars, runVars, otherVars>>

(* lines 100, 357: the builder opens the indel file *)
OpenIndelFile ==
    /\ pc = "builder"
    /\ IF "indels" \in missing
       THEN pc' = "failed" /\ error' = "indels"
       ELSE pc' = "indels" /\ UNCHANGED error
    /\ UNCHANGED <<inputs, ploidyVars, builderVars, rewriterVars, runVars,
                   otherVars>>

(* lines 369-387: one line of the indel file *)
ReadIndel ==
    /\ pc = "indels"
    /\ indel_idx < Len(indel_file)
    /\ LET after == BuilderStep([variant_offsets |-> variant_offsets,
                                 rolling_offset |-> rolling_offset,
                                 curr_chrom |-> curr_chrom],
                                indel_file[indel_idx + 1])
       IN /\ curr_chrom' = after.curr_chrom
          /\ rolling_offset' = after.rolling_offset
          /\ variant_offsets' = after.variant_offsets
    /\ indel_idx' = indel_idx + 1
    /\ UNCHANGED <<inputs, pc, error, ploidyVars, rewriterVars, runVars,
                   otherVars>>

(* lines 389, 100-109: the builder returns; the input annotation is opened *)
(* first, then the output annotation and the log are opened for writing    *)
(* and the header is written                                               *)
OpenFiles ==
    /\ pc = "indels"
    /\ indel_idx = Len(indel_file)
    /\ indel_offsets' = variant_offsets
    /\ IF "annot" \in missing
       THEN /\ pc' = "failed"
            /\ error' = "annot"
            /\ fs' = FilesAfterFailedOpen(fs, updated_annot_file_path,
                                          log_file_path)
            /\ UNCHANGED current_chrom
       ELSE /\ fs' = WriteFile(WriteFile(fs, updated_annot_file_path,
                                         OpenedAnnotation),
                               log_file_path, <<>>)
            /\ current_chrom' = ""
            /\ pc' = "annot"
            /\ UNCHANGED error
    /\ UNCHANGED <<inputs, ploidyVars, builderVars, annot_idx,
                   current_chrom_variant_coords, current_chrom_variant_offsets,
                   runVars, otherVars>>

(* lines 111-235: one line of the annotation *)
ProcessLine ==
    /\ pc = "annot"
    /\ annot_idx < Len(annot_file)
    /\ annot_idx' = annot_idx + 1
    /\ LET annot_feature == annot_file[annot_idx + 1]
           line_data == annot_feature
           changed == current_chrom # line_data.chrom
       IN IF changed /\ StartsWithHash(annot_feature)
          THEN UNCHANGED <<current_chrom, current_chrom_variant_coords,
                           current_chrom_variant_offsets, fs, pc, error>>
          ELSE LET chrom == line_data.chrom
                   coords == IF changed
                             THEN NewChromCoords(indel_offsets, chrom,
                                                 current_chrom_variant_coords)
                             ELSE current_chrom_variant_coords
                   offsets == IF changed
                              THEN NewChromOffsets(indel_offsets, chrom,
                                                   current_chrom_variant_offsets)
                              ELSE current_chrom_variant_offsets
                   logged == IF changed
                             THEN AppendLines(fs, log_file_path,
                                              NewChromLog(indel_offsets, chrom))
                             ELSE fs
               IN /\ current_chrom' = chrom
                  /\ current_chrom_variant_coords' = coords
                  /\ current_chrom_variant_offsets' = offsets
                  /\ IF NotDesired(chrom, desired_chromosomes, chr_ploidy)
                     THEN fs' = logged /\ UNCHANGED <<pc, error>>
                     ELSE IF coords # <<>>
                          THEN IF FormatRaises(line_data)
                               THEN /\ fs' = logged
                                    /\ pc' = "failed"
                                    /\ error' = "stream"
                               ELSE /\ fs' = AppendLines(logged,
                                               updated_annot_file_path,
                                               <<FormatLine(line_data,
                                                   UpdateCoordinates(line_data,
                                                       coords, offsets))>>)
                                    /\ UNCHANGED <<pc, error>>
                          ELSE /\ fs' = AppendLines(logged,
                                                    updated_annot_file_path,
                                                    <<annot_feature>>)
                               /\ UNCHANGED <<pc, error>>
    /\ UNCHANGED <<inputs, ploidyVars, builderVars, indel_offsets, runVars,
                   otherVars>>

(* line 239 *)
Finish ==
    /\ pc = "annot"
    /\ annot_idx = Len(annot_file)
    /\ fs' = AppendLines(fs, log_file_path, SentinelLines)
    /\ pc' = "done"
    /\ UNCHANGED <<inputs, error, ploidyVars, builderVars, indel_offsets,
                   current_chrom, current_chrom_variant_coords,
                   current_chrom_variant_offsets, annot_idx, runVars, otherVars>>

Next ==
    LoadPloidy \/ OpenIndelFile \/ ReadIndel \/ OpenFiles \/ ProcessLine \/ Finish

-----------------------------------------------------------------------------
(* Input files.                                                            *)

Feature(chrom, tx_start, tx_end, exon_starts, exon_ends, id) ==
    [chrom |-> chrom, strand |-> "+", txStart |-> tx_start, txEnd |-> tx_end,
     exonCount |-> Len(exon_starts), exonStarts |-> exon_starts,
     exonEnds |-> exon_ends, transcriptID |-> id, geneID |-> "ENSG1",
     geneSymbol |-> "DDX11L1", biotype |-> "pseudogene"]

Indel(chrom, pos, type, len) ==
    [chrom |-> chrom, pos |-> pos, type |-> type, len |-> len]

(* chromosome, male copies, female copies *)
StandardPloidyFile ==
    << <<"1", "2", "2">>, <<"X", "1", "2">>, <<"Y", "1", "0">>,
       <<"MT", "1", "1">> >>

ExampleIndelFile == <<Indel("1", 100, "I", 5), Indel("1", 200, "D", 3)>>

ExampleFeature == Feature("1", 50, 250, <<50, 210>>, <<120, 250>>, "ENST1")

(* Coordinates before, at, between and after the indel positions *)
FeatureCoords == {50, 100, 120, 200, 210, 250}
IndelPositions == {100, 200}
IndelLengths == {3, 5}
Copies == {"0", "1", "2"}

(* Features as gene annotations have them: the exons in order, none        *)
(* overlapping, the transcript spanning from the first exon start to the   *)
(* last exon end.                                                          *)
IsChain(c) == \A i \in 1..(Len(c) - 1) : c[i] <= c[i + 1]

ChainFeature(chrom, c) ==
    Feature(chrom, c[1], c[Len(c)],
            [i \in 1..(Len(c) \div 2) |-> c[2 * i - 1]],
            [i \in 1..(Len(c) \div 2) |-> c[2 * i]], "ENST1")

WellFormedFeatures(chrom) ==
    UNION {{ChainFeature(chrom, c) : c \in {d \in [1..(2 * n) -> FeatureCoords] : IsChain(d)}}
           : n \in 1..MaxExons}

(* Rows of a damaged annotation: one exon, every coordinate arbitrary *)
ArbitraryFeatures(chrom) ==
    {Feature(chrom, t[1], t[2], <<t[3]>>, <<t[4]>>, "ENST1") :
        t \in FeatureCoords \X FeatureCoords \X FeatureCoords \X FeatureCoords}

(* Rows whose exonStarts and exonEnds columns do not have the same number   *)
(* of entries, or whose exonCount column is not that number: the two       *)
(* columns are split separately and exonCount is never read                *)
UnevenFeatures(chrom) ==
    {[Feature(chrom, 50, 250, se[1], se[2], "ENST1") EXCEPT !.exonCount = n] :
        se \in {<< <<50, 210>>, <<120>> >>, << <<50>>, <<120, 250>> >>,
                 << <<50, 210>>, <<120, 250>> >>},
        n \in 1..3}

(* A row whose exon begins just before the transcript start and ends just  *)
(* after it                                                                *)
NarrowExonFeatures(chrom) ==
    {Feature(chrom, 100, 250, <<98>>, <<101>>, "ENST1")}

RemapFeatures ==
    WellFormedFeatures("1") \cup ArbitraryFeatures("1")
        \cup UnevenFeatures("1") \cup NarrowExonFeatures("1")

RemapIndelLines ==
    {Indel("1", p, "I", 5) : p \in IndelPositions}
        \cup {Indel("1", p, "D", 3) : p \in IndelPositions}

BuildIndelLines ==
    {Indel(c, p, t, l) : c \in {"1", "X"}, p \in IndelPositions,
                         t \in {"I", "D"}, l \in IndelLengths}

RunIndelFiles ==
    {<<>>, ExampleIndelFile, <<Indel("X", 100, "D", 3)>>,
     <<Indel("Y", 200, "I", 5), Indel("1", 100, "I", 5)>>}

(* A feature of chromosome 1 with a '#' put before it *)
CommentedFeature ==
    [Feature("1", 120, 210, <<120>>, <<210>>, "ENST2") EXCEPT !.chrom = "#1"]

RunLines ==
    {HeaderLine, CommentedFeature, ExampleFeature,
     Feature("1", 120, 210, <<120>>, <<210>>, "ENST2"),
     Feature("X", 50, 120, <<50>>, <<120>>, "ENST3"),
     Feature("Y", 100, 250, <<100>>, <<250>>, "ENST4"),
     Feature("GL000192.1", 50, 250, <<50>>, <<250>>, "ENST5")}

(* The gender of the dummy sample that main makes when it is given no      *)
(* --sample: Sample(None, "debug sample", None, None, None)                *)
None == "None"

(* Values sample.gender can have: the two the pipeline writes, another     *)
(* capitalisation, an abbreviation, and none                               *)
Genders == {"male", "female", "Female", "F", None}

(* Lines no ploidy table should have: a field short, a field more, a tab   *)
(* at the end of a full line, a count that is no numeral, an empty line    *)
MalformedPloidyRows ==
    {<<"X", "1">>, <<"X", "1", "2", "1">>, <<"X", "1", "2", "">>,
     <<"X", "one", "2">>, <<"X", "1", "two">>, <<"">>}

PloidyRows ==
    {<<c, m, f>> : c \in {"X", "Y"}, m \in Copies, f \in Copies}
        \cup MalformedPloidyRows

(* A feature line cut after its seventh column *)
TruncatedFeature(chrom, tx_start, tx_end, exon_starts, exon_ends) ==
    [chrom |-> chrom, strand |-> "+", txStart |-> tx_start, txEnd |-> tx_end,
     exonCount |-> Len(exon_starts), exonStarts |-> exon_starts,
     exonEnds |-> exon_ends]

(* The state in which execute() is entered.  The two lists of the          *)
(* remapping context are not bound before the first chromosome change;     *)
(* the code reads neither before it has assigned the coordinates, and      *)
(* reads the offsets only when the coordinates are not empty.              *)
Entry ==
    /\ pc = "start"
    /\ chr_ploidy = <<>>
    /\ desired_chromosomes = <<>>
    /\ variant_offsets = <<>>
    /\ rolling_offset = 0
    /\ curr_chrom = ""
    /\ indel_idx = 0
    /\ indel_offsets = <<>>
    /\ current_chrom = ""
    /\ current_chrom_variant_coords = <<>>
    /\ current_chrom_variant_offsets = <<>>
    /\ annot_idx = 0
    /\ error = ""

NoFiles == [p \in {} |-> <<>>]

(* A first run of one job, all input files in place, nothing on disk and   *)
(* no other invocation at work                                             *)
FirstRunAlone ==
    /\ missing = {}
    /\ sample_id = 1
    /\ data_directory_path = "data"
    /\ log_directory_path = "logs"
    /\ fs = NoFiles
    /\ run = 1
    /\ history = <<>>
    /\ disturbed = FALSE
    /\ other_pc = "idle"
    /\ other_sample_id = 2
    /\ other_suffix = 1

(* Whole runs over annotations of several chromosomes *)
Init ==
    /\ gender \in {"male", "female"}
    /\ genome_indel_suffix \in {1, 2}
    /\ ploidy_file = StandardPloidyFile
    /\ indel_file \in RunIndelFiles
    /\ annot_file \in SeqsUpTo(RunLines, MaxLines)
    /\ FirstRunAlone
    /\ Entry

(* One feature against every indel file of its chromosome *)
InitRemap ==
    /\ gender = "male"
    /\ genome_indel_suffix = 1
    /\ ploidy_file = StandardPloidyFile
    /\ indel_file \in SeqsUpTo(RemapIndelLines, MaxIndels)
    /\ annot_file \in {<<f>> : f \in RemapFeatures}
    /\ FirstRunAlone
    /\ Entry

(* Every indel file of two chromosomes *)
InitBuild ==
    /\ gender = "male"
    /\ genome_indel_suffix = 1
    /\ ploidy_file = StandardPloidyFile
    /\ indel_file \in SeqsUpTo(BuildIndelLines, MaxBuildIndels)
    /\ annot_file = <<ExampleFeature>>
    /\ FirstRunAlone
    /\ Entry

(* Every ploidy file of the sex chromosomes *)
InitPloidy ==
    /\ gender \in Genders
    /\ genome_indel_suffix \in {1, 2}
    /\ ploidy_file \in SeqsUpTo(PloidyRows, MaxPloidyRows)
    /\ indel_file = ExampleIndelFile
    /\ annot_file = <<Feature("X", 50, 120, <<50>>, <<120>>, "ENST3")>>
    /\ FirstRunAlone
    /\ Entry

Spec == Init /\ [][Next]_vars

SpecRemap == InitRemap /\ [][Next]_vars

SpecBuild == InitBuild /\ [][Next]_vars

SpecPloidy == InitPloidy /\ [][Next]_vars

-----------------------------------------------------------------------------
(* Runs of one job after the first, and a second invocation.               *)

(* What a run that has ended leaves: its inputs, where it stopped, the     *)
(* job's two files and the verdict of is_output_valid                      *)
ThisRun ==
    [ploidy_file |-> ploidy_file, indel_file |-> indel_file,
     annot_file |-> annot_file, missing |-> missing, pc |-> pc,
     error |-> error, updated_annot_file |-> updated_annot_file,
     log_file |-> log_file, disturbed |-> disturbed,
     valid |-> IsOutputValid(fs, data_directory_path, log_directory_path,
                             sample_id, genome_indel_suffix)]

JobInput(ploidy, indels, annot, absent) ==
    [ploidy_file |-> ploidy, indel_file |-> indels, annot_file |-> annot,
     missing |-> absent]

(* Inputs a run completes on *)
GoodJobInputs ==
    {JobInput(StandardPloidyFile, ExampleIndelFile, <<HeaderLine, ExampleFeature>>, {}),
     JobInput(StandardPloidyFile, <<>>,
              <<ExampleFeature, Feature("X", 50, 120, <<50>>, <<120>>, "ENST3")>>, {}),
     JobInput(StandardPloidyFile, ExampleIndelFile, <<>>, {}),
     JobInput(StandardPloidyFile, ExampleIndelFile,
              <<ExampleFeature, Feature("1", 120, 210, <<120>>, <<210>>, "ENST2")>>,
              {})}

(* Inputs a run raises on: a file that is not there, a ploidy line of two  *)
(* fields, a feature line cut short on a chromosome with indels            *)
BadJobInputs ==
    {JobInput(StandardPloidyFile, ExampleIndelFile, <<ExampleFeature>>, {"ploidy"}),
     JobInput(StandardPloidyFile, ExampleIndelFile, <<ExampleFeature>>, {"indels"}),
     JobInput(StandardPloidyFile, ExampleIndelFile, <<ExampleFeature>>, {"annot"}),
     JobInput(<< <<"1", "2", "2">>, <<"X", "1">> >>, ExampleIndelFile,
              <<ExampleFeature>>, {}),
     JobInput(StandardPloidyFile, ExampleIndelFile,
              <<ExampleFeature, TruncatedFeature("1", 120, 210, <<120>>, <<210>>)>>,
              {}),
     JobInput(StandardPloidyFile, ExampleIndelFile,
              <<TruncatedFeature("1", 120, 210, <<120>>, <<210>>)>>, {})}

JobInputs == GoodJobInputs \cup BadJobInputs

(* What the other invocation writes *)
OtherLines == {Feature("2", 50, 120, <<50>>, <<120>>, "ENST6")}

PairInputs ==
    GoodJobInputs
        \cup {JobInput(StandardPloidyFile, ExampleIndelFile,
                       <<ExampleFeature,
                         TruncatedFeature("1", 120, 210, <<120>>, <<210>>)>>, {})}

(* execute() is entered again for the same job, on the files the runs      *)
(* before it left on disk                                                  *)
RestartWith(in) ==
    /\ pc \in {"done", "failed"}
    /\ run < MaxRuns
    /\ run' = run + 1
    /\ history' = Append(history, ThisRun)
    /\ disturbed' = FALSE
    /\ ploidy_file' = in.ploidy_file
    /\ indel_file' = in.indel_file
    /\ annot_file' = in.annot_file
    /\ missing' = in.missing
    /\ pc' = "start"
    /\ error' = ""
    /\ chr_ploidy' = <<>>
    /\ desired_chromosomes' = <<>>
    /\ variant_offsets' = <<>>
    /\ rolling_offset' = 0
    /\ curr_chrom' = ""
    /\ indel_idx' = 0
    /\ indel_offsets' = <<>>
    /\ current_chrom' = ""
    /\ current_chrom_variant_coords' = <<>>
    /\ current_chrom_variant_offsets' = <<>>
    /\ annot_idx' = 0
    /\ UNCHANGED <<gender, genome_indel_suffix, sample_id, data_directory_path,
                   log_directory_path, fs, otherVars>>

(* The job is run again, on whatever input files are there by then *)
Restart == \E in \in JobInputs : RestartWith(in)

(* The job is run again on the same input files *)
RunAgain ==
    RestartWith(JobInput(ploidy_file, indel_file, annot_file, missing))

other_annot_file_path ==
    UpdatedAnnotFilePath(data_directory_path, other_sample_id, other_suffix)

other_log_file_path == LogFilePath(log_directory_path, other_sample_id, other_suffix)

(* The other invocation, seen from the disk: lines 102-107 *)
OtherOpenFiles ==
    /\ other_pc = "start"
    /\ fs' = WriteFile(WriteFile(fs, other_annot_file_path, OpenedAnnotation),
                       other_log_file_path, <<>>)
    /\ other_pc' = "annot"
    /\ disturbed' = TRUE
    /\ UNCHANGED <<inputs, pc, error, ploidyVars, builderVars, indel_offsets,
                   current_chrom, current_chrom_variant_coords,
                   current_chrom_variant_offsets, annot_idx, run, history,
                   other_sample_id, other_suffix>>

(* lines 124 and 235 of the other invocation: a feature of a new           *)
(* chromosome                                                              *)
OtherProcessLine ==
    /\ other_pc = "annot"
    /\ Len(fs[other_annot_file_path]) <= MaxOtherLines
    /\ \E line \in OtherLines :
           fs' = AppendLines(AppendLines(fs, other_log_file_path,
                                 <<LogLine("Processing indels and annotated features from chromosome",
                                           line.chrom)>>),
                             other_annot_file_path, <<line>>)
    /\ disturbed' = TRUE
    /\ UNCHANGED <<inputs, pc, error, ploidyVars, builderVars, indel_offsets,
                   current_chrom, current_chrom_variant_coords,
                   current_chrom_variant_offsets, annot_idx, run, history,
                   otherVars>>

(* line 239 of the other invocation *)
OtherFinish ==
    /\ other_pc = "annot"
    /\ fs' = AppendLines(fs, other_log_file_path, SentinelLines)
    /\ other_pc' = "done"
    /\ disturbed' = TRUE
    /\ UNCHANGED <<inputs, pc, error, ploidyVars, builderVars, indel_offsets,
                   current_chrom, current_chrom_variant_coords,
                   current_chrom_variant_offsets, annot_idx, run, history,
                   other_sample_id, other_suffix>>

NextJob == Next \/ Restart

NextPair == Next \/ RunAgain \/ OtherOpenFiles \/ OtherProcessLine \/ OtherFinish

(* Runs of one job, one after the other *)
InitJob ==
    /\ gender \in {"male", "female"}
    /\ genome_indel_suffix \in {1, 2}
    /\ \E in \in JobInputs :
           /\ ploidy_file = in.ploidy_file
           /\ indel_file = in.indel_file
           /\ annot_file = in.annot_file
           /\ missing = in.missing
    /\ sample_id = 1
    /\ data_directory_path = "data"
    /\ log_directory_path = "logs"
    /\ fs = NoFiles
    /\ run = 1
    /\ history = <<>>
    /\ disturbed = FALSE
    /\ other_pc = "idle"
    /\ other_sample_id = 2
    /\ other_suffix = 1
    /\ Entry

(* Two invocations sharing the data and log directories *)
InitPair ==
    /\ gender = "male"
    /\ genome_indel_suffix \in {1, 2}
    /\ \E in \in PairInputs :
           /\ ploidy_file = in.ploidy_file
           /\ indel_file = in.indel_file
           /\ annot_file = in.annot_file
           /\ missing = in.missing
    /\ sample_id = 1
    /\ data_directory_path = "data"
    /\ log_directory_path \in {"data", "logs"}
    /\ fs = NoFiles
    /\ run = 1
    /\ history = <<>>
    /\ disturbed = FALSE
    /\ other_pc = "start"
    /\ other_sample_id \in {1, 2}
    /\ other_suffix \in {1, 2}
    /\ Entry

SpecJob == InitJob /\ [][NextJob]_vars

SpecPair == InitPair /\ [][NextPair]_vars

-----------------------------------------------------------------------------
(* What the properties below speak of, stated from the input files.        *)

IsFeature(line) == ~StartsWithHash(line)

(* The indels of one chromosome, in file order *)
ChromIndels(file, chrom) == SelectSeq(file, LAMBDA l : l.chrom = chrom)

StrictlyIncreasing(indels) ==
    \A i \in 1..(Len(indels) - 1) : indels[i].pos < indels[i + 1].pos

(* The lines of a chromosome are next to each other *)
Grouped(file) ==
    \A i, j, k \in 1..Len(file) :
        (i < j /\ j < k /\ file[i].chrom = file[k].chrom)
            => file[j].chrom = file[i].chrom

(* The fields of a line of the ploidy file, blank ends taken off *)
PloidyFields(i) == StripSplit(ploidy_file[i])

InPloidyTable(chrom) == \E i \in 1..Len(ploidy_file) : PloidyFields(i)[1] = chrom

(* The copy count the ploidy file gives a chromosome for the sample's sex; *)
(* of two rows of a chromosome the later one counts.                       *)
CopyCount(chrom) ==
    LET last == CHOOSE i \in 1..Len(ploidy_file) :
                    /\ PloidyFields(i)[1] = chrom
                    /\ \A j \in (i + 1)..Len(ploidy_file) : PloidyFields(j)[1] # chrom
    IN IF gender = "female" THEN ParseInt(PloidyFields(last)[3])
       ELSE ParseInt(PloidyFields(last)[2])

Eligible(chrom) == InPloidyTable(chrom) /\ CopyCount(chrom) >= genome_indel_suffix

ExonsWithin(f) ==
    /\ \A i \in 1..Len(f.exonStarts) :
           f.txStart <= f.exonStarts[i] /\ f.exonStarts[i] <= f.txEnd
    /\ \A i \in 1..Len(f.exonEnds) :
           f.txStart <= f.exonEnds[i] /\ f.exonEnds[i] <= f.txEnd

(* effective_offset(c): the offset stored at the greatest indel position   *)
(* <= c of an offset table, 0 when there is none                           *)
EffectiveOffset(table, c) ==
    LET below == {i \in 1..Len(table) : table[i][1] <= c}
    IN IF below = {} THEN 0
       ELSE table[CHOOSE i \in below :
                      \A j \in below : table[j][1] <= table[i][1]][2]

(* A line of the annotation has just been processed *)
LineProcessed == pc \in {"annot", "done"} /\ annot_idx >= 1

LastLine == annot_file[annot_idx]

LastWritten == updated_annot_file[Len(updated_annot_file)]

(* The feature just processed lies on an eligible chromosome with an       *)
(* offset table                                                            *)
RemappedFeatureProcessed ==
    /\ LineProcessed
    /\ IsFeature(LastLine)
    /\ Eligible(LastLine.chrom)
    /\ DictHas(indel_offsets, LastLine.chrom)

(* The four coordinate columns of line `out` are those of `f`, each moved  *)
(* by Shift(c)                                                             *)
CoordinatesShifted(f, out, Shift(_)) ==
    /\ out.txStart = f.txStart + Shift(f.txStart)
    /\ out.txEnd = f.txEnd + Shift(f.txEnd)
    /\ Len(out.exonStarts) = Len(f.exonStarts)
    /\ Len(out.exonEnds) = Len(f.exonEnds)
    /\ \A i \in 1..Len(f.exonStarts) :
           out.exonStarts[i] = f.exonStarts[i] + Shift(f.exonStarts[i])
    /\ \A i \in 1..Len(f.exonEnds) :
           out.exonEnds[i] = f.exonEnds[i] + Shift(f.exonEnds[i])

-----------------------------------------------------------------------------
(* C1: a feature on an eligible chromosome whose offset table was built    *)
(* from indels in strictly increasing position order, and whose exon       *)
(* coordinates lie within [tx_start, tx_end], is written with every        *)
(* coordinate c replaced by c + effective_offset(c).                       *)
C1_RemapByEffectiveOffset ==
    (/\ RemappedFeatureProcessed
     /\ StrictlyIncreasing(ChromIndels(indel_file, LastLine.chrom))
     /\ ExonsWithin(LastLine))
        => LET table == DictGet(indel_offsets, LastLine.chrom)
               Shift(c) == EffectiveOffset(table, c)
           IN CoordinatesShifted(LastLine, LastWritten, Shift)

(* C1 witness: a two-exon feature with an indel between its exons and none *)
(* before its start has been remapped.                                     *)
C1_Witness ==
    /\ RemappedFeatureProcessed
    /\ StrictlyIncreasing(ChromIndels(indel_file, LastLine.chrom))
    /\ ExonsWithin(LastLine)
    /\ Len(indel_file) = 2
    /\ Len(LastLine.exonStarts) = 2
    /\ LastLine.txStart < indel_file[1].pos
    /\ LastLine.exonStarts[2] > indel_file[2].pos
    /\ LastWritten.exonStarts[2] # LastLine.exonStarts[2]

(* The shift one indel at position P of signed length L gives coordinate c *)
(* when coordinates from P on move                                         *)
SingleIndel(chrom) == ChromIndels(indel_file, chrom)[1]

SignedLength(indel) == IF indel.type = "D" THEN 0 - indel.len ELSE indel.len

SingleIndelFeatureProcessed ==
    /\ RemappedFeatureProcessed
    /\ Len(ChromIndels(indel_file, LastLine.chrom)) = 1
    /\ ExonsWithin(LastLine)

(* C2 as stated: with exactly one indel on the chromosome, at position P   *)
(* with length L, every coordinate c > P moves by +L (insertion) or -L     *)
(* (deletion) and every coordinate c <= P, c = P included, stays.          *)
C2_ShiftOnlyAfterPosition ==
    SingleIndelFeatureProcessed
        => LET indel == SingleIndel(LastLine.chrom)
               Shift(c) == IF c > indel.pos THEN SignedLength(indel) ELSE 0
           IN CoordinatesShifted(LastLine, LastWritten, Shift)

(* C2 amended: with exactly one indel on the chromosome, at position P     *)
(* with length L, every coordinate c >= P of a feature whose exons lie     *)
(* within its transcript moves by +L (insertion) or -L (deletion) and      *)
(* every coordinate c < P stays.                                           *)
C2_ShiftFromPosition ==
    SingleIndelFeatureProcessed
        => LET indel == SingleIndel(LastLine.chrom)
               Shift(c) == IF c >= indel.pos THEN SignedLength(indel) ELSE 0
           IN CoordinatesShifted(LastLine, LastWritten, Shift)

(* C2 witness: a feature starting exactly at the position of the only      *)
(* deletion has been remapped, its start moved.                            *)
C2_Witness ==
    /\ SingleIndelFeatureProcessed
    /\ SingleIndel(LastLine.chrom).type = "D"
    /\ LastLine.txStart = SingleIndel(LastLine.chrom).pos
    /\ LastWritten.txStart = LastLine.txStart - SingleIndel(LastLine.chrom).len

ExampleProcessed ==
    /\ RemappedFeatureProcessed
    /\ indel_file = ExampleIndelFile
    /\ LastLine = ExampleFeature

(* C3 as stated: under the indels (1:100 I 5, 1:200 D 3) the feature       *)
(* tx 50..250, exon starts 50,210, exon ends 120,250 is written as         *)
(* tx 50..252, exon starts 50,215, exon ends 125,252.                      *)
C3_ExampleAsStated ==
    ExampleProcessed
        => /\ LastWritten.txStart = 50
           /\ LastWritten.txEnd = 252
           /\ LastWritten.exonStarts = <<50, 215>>
           /\ LastWritten.exonEnds = <<125, 252>>

(* C3 amended: the feature is written as tx 50..252, exon starts 50,212    *)
(* (the predecessor of 210 is position 200, offset +2), exon ends 125,252. *)
C3_Example ==
    ExampleProcessed
        => /\ LastWritten.txStart = 50
           /\ LastWritten.txEnd = 252
           /\ LastWritten.exonStarts = <<50, 212>>
           /\ LastWritten.exonEnds = <<125, 252>>

(* C3 witness: the run over the example has finished.                      *)
C3_Witness == ExampleProcessed /\ pc = "done"

-----------------------------------------------------------------------------
(* C4: a feature on an eligible chromosome that does not appear in the     *)
(* indel file is written exactly as it was read.                           *)
C4_IdentityWithoutIndels ==
    (/\ LineProcessed
     /\ IsFeature(LastLine)
     /\ Eligible(LastLine.chrom)
     /\ ChromIndels(indel_file, LastLine.chrom) = <<>>)
        => LastWritten = LastLine

(* C4 witness: a feature of a chromosome without indels has been written   *)
(* right after a feature of a chromosome with indels.                      *)
C4_Witness ==
    /\ LineProcessed
    /\ annot_idx >= 2
    /\ IsFeature(LastLine)
    /\ Eligible(LastLine.chrom)
    /\ ChromIndels(indel_file, LastLine.chrom) = <<>>
    /\ IsFeature(annot_file[annot_idx - 1])
    /\ Eligible(annot_file[annot_idx - 1].chrom)
    /\ ChromIndels(indel_file, annot_file[annot_idx - 1].chrom) # <<>>
    /\ LastWritten = LastLine

(* The last row the ploidy file has of a chromosome *)
PloidyRow(chrom) ==
    LET last == CHOOSE i \in 1..Len(ploidy_file) :
                    /\ PloidyFields(i)[1] = chrom
                    /\ \A j \in (i + 1)..Len(ploidy_file) : PloidyFields(j)[1] # chrom
    IN <<chrom, ParseInt(PloidyFields(last)[2]), ParseInt(PloidyFields(last)[3])>>

PloidyLoaded == pc # "start" /\ error # "ploidy" /\ gender \in {"male", "female"}

(* C5: a chromosome of the ploidy table is eligible exactly when its copy  *)
(* count for the sample's sex (male column for a male sample, female       *)
(* column for a female sample) is >= the genome copy; with one female copy *)
(* it is eligible for a female sample at copy 1 and not at copy 2, with no *)
(* female copy never.                                                      *)
C5_EligibleIffEnoughCopies ==
    PloidyLoaded
        => \A i \in 1..Len(ploidy_file) :
               LET chrom == PloidyFields(i)[1]
                   row == PloidyRow(chrom)
                   copies == IF gender = "male" THEN row[2] ELSE row[3]
               IN /\ InList(chrom, desired_chromosomes)
                         <=> (copies >= genome_indel_suffix)
                  /\ (gender = "female" /\ row[3] = 1)
                         => (InList(chrom, desired_chromosomes)
                                 <=> (genome_indel_suffix = 1))
                  /\ (gender = "female" /\ row[3] = 0)
                         => ~InList(chrom, desired_chromosomes)

(* C5 witness: for a female sample at copy 2, a chromosome with one female *)
(* and two male copies has been left out and one with two female copies    *)
(* and no male copy taken.                                                 *)
C5_Witness ==
    /\ PloidyLoaded
    /\ gender = "female"
    /\ genome_indel_suffix = 2
    /\ ploidy_file = << <<"X", "2", "1">>, <<"Y", "0", "2">> >>
    /\ desired_chromosomes = <<"Y">>

(* The features of the annotation that lie on eligible chromosomes, in     *)
(* file order                                                              *)
EligibleFeatures ==
    SelectSeq(annot_file, LAMBDA l : IsFeature(l) /\ Eligible(l.chrom))

(* C6: after a completed run the output holds, after its header, exactly   *)
(* one line for every input feature of an eligible chromosome and no line  *)
(* of any other feature, however the chromosomes are interleaved and       *)
(* whether or not they have indels.                                        *)
C6_OneLinePerEligibleFeature ==
    pc = "done"
        => /\ Len(updated_annot_file) = 1 + Len(EligibleFeatures)
           /\ \A k \in 1..Len(EligibleFeatures) :
                  /\ updated_annot_file[k + 1].chrom = EligibleFeatures[k].chrom
                  /\ updated_annot_file[k + 1].transcriptID
                         = EligibleFeatures[k].transcriptID

(* C6 witness: a completed run over an eligible chromosome with indels, an *)
(* ineligible chromosome with indels and the eligible one again.           *)
C6_Witness ==
    /\ pc = "done"
    /\ Len(annot_file) = 3
    /\ annot_file[1].chrom = "1"
    /\ annot_file[2].chrom = "Y"
    /\ annot_file[3].chrom = "1"
    /\ gender = "female"
    /\ DictHas(indel_offsets, "Y")
    /\ DictHas(indel_offsets, "1")
    /\ Len(updated_annot_file) = 3

UnknownChromosomeNext ==
    /\ pc = "annot"
    /\ annot_idx < Len(annot_file)
    /\ IsFeature(annot_file[annot_idx + 1])
    /\ ~InPloidyTable(annot_file[annot_idx + 1].chrom)

(* C7 as stated: a run over an annotation with a feature whose chromosome  *)
(* has no entry in the ploidy table does not complete.                     *)
C7_UnknownChromosomeStopsRun ==
    pc = "done"
        => \A i \in 1..Len(annot_file) :
               IsFeature(annot_file[i]) => InPloidyTable(annot_file[i].chrom)

(* C7 amended: a feature whose chromosome has no entry in the ploidy table *)
(* is treated as ineligible: the step that reads it writes nothing to the  *)
(* output, raises no error and leaves the run in its loop, free to go on   *)
(* to completion.                                                          *)
C7_UnknownChromosomeSkipped ==
    [][UnknownChromosomeNext
           => /\ updated_annot_file' = updated_annot_file
              /\ annot_idx' = annot_idx + 1
              /\ pc' = "annot"]_vars

(* C7 witness: a run has completed although its annotation has a feature   *)
(* of a chromosome without ploidy entry, which is not in the output.       *)
C7_Witness ==
    /\ pc = "done"
    /\ \E i \in 1..Len(annot_file) :
           IsFeature(annot_file[i]) /\ ~InPloidyTable(annot_file[i].chrom)
    /\ \A k \in 1..Len(updated_annot_file) :
           updated_annot_file[k].chrom # "GL000192.1"

-----------------------------------------------------------------------------
(* The lines of the indel file read so far *)
IndelsRead == SubSeq(indel_file, 1, indel_idx)

RECURSIVE SignedSum(_)
SignedSum(indels) ==
    IF indels = <<>> THEN 0
    ELSE SignedLength(indels[Len(indels)])
             + SignedSum(SubSeq(indels, 1, Len(indels) - 1))

(* Line i is the last line read so far of its chromosome and position *)
NotOverwritten(i) ==
    \A j \in (i + 1)..indel_idx :
        ~(indel_file[j].chrom = indel_file[i].chrom
              /\ indel_file[j].pos = indel_file[i].pos)

(* C8: for an indel stream grouped by chromosome, the entry recorded for   *)
(* the i-th indel of a chromosome is (position_i, s_i), s_i the signed sum *)
(* (+length for an insertion, -length for a deletion) of the chromosome's  *)
(* indels up to and including the i-th.                                    *)
C8_EntryIsSignedRunningSum ==
    (pc # "start" /\ Grouped(IndelsRead))
        => \A i \in 1..indel_idx :
               NotOverwritten(i)
                   => LET chrom == indel_file[i].chrom
                          upto == ChromIndels(SubSeq(indel_file, 1, i), chrom)
                      IN /\ DictHas(variant_offsets, chrom)
                         /\ DictHas(DictGet(variant_offsets, chrom), indel_file[i].pos)
                         /\ DictGet(DictGet(variant_offsets, chrom), indel_file[i].pos)
                                = SignedSum(upto)

(* C8 witness: the third indel of a chromosome, a deletion after two       *)
(* insertions, has been recorded.                                          *)
C8_Witness ==
    /\ pc = "indels"
    /\ indel_idx = 3
    /\ \A i \in 1..3 : indel_file[i].chrom = "X"
    /\ indel_file[1].type = "I"
    /\ indel_file[2].type = "I"
    /\ indel_file[3].type = "D"
    /\ indel_file[1].pos < indel_file[2].pos
    /\ rolling_offset = indel_file[1].len + indel_file[2].len - indel_file[3].len

BuilderDone == pc # "start" /\ indel_idx = Len(indel_file)

(* C9: accumulation restarts at 0 when the stream moves to another         *)
(* chromosome: the first entry of a chromosome is its first indel's own    *)
(* signed length, and the table built for a chromosome is the table built  *)
(* from that chromosome's indels alone, whatever the other chromosomes     *)
(* carry and wherever its group stands.                                    *)
C9_TablePerChromosomeAlone ==
    (BuilderDone /\ Grouped(indel_file))
        => \A i \in 1..Len(indel_file) :
               LET chrom == indel_file[i].chrom
                   own == ChromIndels(indel_file, chrom)
               IN /\ DictHas(variant_offsets, chrom)
                  /\ DictGet(variant_offsets, chrom)
                         = DictGet(GetOffsetsFromVariantFile(own), chrom)
                  /\ (\A k \in 2..Len(own) : own[k].pos # own[1].pos)
                         => DictGet(DictGet(variant_offsets, chrom), own[1].pos)
                                = SignedLength(own[1])

(* C9 witness: the table of the second chromosome group has been built     *)
(* after a first group whose offset is not 0.                              *)
C9_Witness ==
    /\ BuilderDone
    /\ Len(indel_file) = 3
    /\ indel_file[1].chrom = "1"
    /\ indel_file[2].chrom = "X"
    /\ indel_file[3].chrom = "X"
    /\ indel_file[2].pos < indel_file[3].pos
    /\ DictGet(variant_offsets, "X")
           = << <<indel_file[2].pos, SignedLength(indel_file[2])>>,
                <<indel_file[3].pos,
                  SignedLength(indel_file[2]) + SignedLength(indel_file[3])>> >>

(* Every coordinate looked up on its own: lines 179-183 for each *)
IndependentLookup(f, coords, offsets) ==
    [txStart |-> CheckedExonCoord(coords, offsets, f.txStart),
     txEnd |-> CheckedExonCoord(coords, offsets, f.txEnd),
     exonStarts |-> [i \in 1..Len(f.exonStarts) |->
                        CheckedExonCoord(coords, offsets, f.exonStarts[i])],
     exonEnds |-> [i \in 1..Len(f.exonEnds) |->
                      CheckedExonCoord(coords, offsets, f.exonEnds[i])]]

SameIndexFeatureProcessed ==
    /\ RemappedFeatureProcessed
    /\ ExonsWithin(LastLine)
    /\ OffsetIndex(current_chrom_variant_coords, LastLine.txStart)
           = OffsetIndex(current_chrom_variant_coords, LastLine.txEnd)

(* C10: for a feature whose tx_start and tx_end have the same predecessor  *)
(* index (both none included) and whose exons lie within its transcript,   *)
(* the line written by the single-offset path has the tx_start, tx_end,    *)
(* exon starts and exon ends that looking every coordinate up on its own   *)
(* gives.                                                                  *)
C10_SingleOffsetIsIndependentLookup ==
    SameIndexFeatureProcessed
        => LET each == IndependentLookup(LastLine, current_chrom_variant_coords,
                                         current_chrom_variant_offsets)
           IN /\ LastWritten.txStart = each.txStart
              /\ LastWritten.txEnd = each.txEnd
              /\ LastWritten.exonStarts = each.exonStarts
              /\ LastWritten.exonEnds = each.exonEnds

(* C10 witness: a two-exon feature lying wholly between two indels has     *)
(* been moved by the first indel's offset.                                 *)
C10_Witness ==
    /\ SameIndexFeatureProcessed
    /\ current_chrom_variant_coords = <<100, 200>>
    /\ Len(LastLine.exonStarts) = 2
    /\ LastLine.txStart = 100
    /\ LastLine.txEnd = 120
    /\ LastWritten.exonEnds[2] = 120 + current_chrom_variant_offsets[1]

-----------------------------------------------------------------------------
(* The sentinel, the verdict of is_output_valid and the runs that raise.   *)

(* The last line of a log is the text "ALL DONE!", with or without a       *)
(* newline after it                                                        *)
EndsWithSentinel(lines) ==
    /\ lines # <<>>
    /\ lines[Len(lines)].msg = "ALL DONE!"
    /\ lines[Len(lines)].chrom = ""

Valid ==
    IsOutputValid(fs, data_directory_path, log_directory_path, sample_id,
                  genome_indel_suffix)

Running == pc \in {"start", "builder", "indels", "annot"}

(* Some feature line of the input annotation has not been read yet *)
FeatureUnprocessed ==
    \E i \in (annot_idx + 1)..Len(annot_file) : ~StartsWithHash(annot_file[i])

(* C11: a run that has completed leaves a log whose final line is exactly  *)
(* "ALL DONE!", and at every state of a run at which some input feature    *)
(* has not yet been processed the final line of the job's log is not the   *)
(* sentinel.                                                               *)
C11_SentinelOnlyAfterLastFeature ==
    /\ pc = "done" => EndsWithSentinel(log_file)
    /\ (Running /\ FeatureUnprocessed) => ~EndsWithSentinel(log_file)

(* C12: is_output_valid is true exactly when the output annotation exists, *)
(* the log exists and the last line of the log is "ALL DONE!"; while the   *)
(* annotation is being streamed, and after a run that raised while         *)
(* streaming, the output written so far does not make it true.             *)
C12_ValidIffFilesAndSentinel ==
    /\ Valid <=> /\ FileExists(fs, updated_annot_file_path)
                 /\ FileExists(fs, log_file_path)
                 /\ EndsWithSentinel(log_file)
    /\ (pc = "annot" \/ (pc = "failed" /\ error = "stream")) => ~Valid

(* C12 witness: a later run of a job whose first run was valid raised      *)
(* while streaming; a feature line is in the output annotation and the     *)
(* verdict is false.                                                       *)
C12_Witness ==
    /\ pc = "failed"
    /\ error = "stream"
    /\ Len(updated_annot_file) >= 2
    /\ history # <<>>
    /\ history[1].valid
    /\ ~Valid

(* C13: after any sequence of runs of the same job, if the most recent run *)
(* raised (ploidy file missing or malformed, indel file missing,           *)
(* annotation missing, error while streaming) is_output_valid is false,    *)
(* whatever the runs before it did.                                        *)
C13_FailedRunIsInvalid == pc = "failed" => ~Valid

(* The job's two files: whether each exists, and its lines *)
JobFiles ==
    <<FileExists(fs, updated_annot_file_path), updated_annot_file,
      FileExists(fs, log_file_path), log_file>>

(* C14: in a run whose ploidy, indel or annotation file is absent no step  *)
(* creates, truncates or writes the output annotation or the log, and the  *)
(* run does not complete.                                                  *)
C14_AbsentInputLeavesFilesAlone ==
    /\ [][missing # {} => JobFiles' = JobFiles]_vars
    /\ [](missing # {} => pc \notin {"annot", "done"})

(* C14 witness: the annotation of a job that has completed once is gone    *)
(* at the next run; the run has raised at the open and the two files are   *)
(* what the first run left.                                                *)
C14_Witness ==
    /\ pc = "failed"
    /\ error = "annot"
    /\ missing = {"annot"}
    /\ history # <<>>
    /\ history[Len(history)].pc = "done"
    /\ updated_annot_file = history[Len(history)].updated_annot_file
    /\ Len(updated_annot_file) >= 2
    /\ log_file = history[Len(history)].log_file

(* The ploidy table a well-formed file stands for: every chromosome of a   *)
(* line with the counts of its last line                                   *)
LoadedAsWritten ==
    /\ \A i \in 1..Len(ploidy_file) :
           LET chrom == PloidyFields(i)[1]
           IN /\ DictHas(chr_ploidy, chrom)
              /\ DictGet(chr_ploidy, chrom) =
                     <<PloidyRow(chrom)[2], PloidyRow(chrom)[3]>>
    /\ \A k \in 1..Len(chr_ploidy) : InPloidyTable(chr_ploidy[k][1])

LoadFailed == pc = "failed" /\ error = "ploidy" /\ fs = NoFiles

Numerals == {"0", "1", "2", "3"}

(* C15 as stated: the load fails, and nothing is written, whenever a line  *)
(* after the header does not have exactly three tab-separated fields or    *)
(* has a count that is no integer; otherwise the table holds every row.    *)
C15_RejectsEveryLineNotOfThreeFields ==
    pc # "start"
        => IF \E i \in 1..Len(ploidy_file) :
                  \/ Len(ploidy_file[i]) # 3
                  \/ ploidy_file[i][2] \notin Numerals
                  \/ ploidy_file[i][3] \notin Numerals
           THEN LoadFailed
           ELSE error # "ploidy" /\ LoadedAsWritten

(* C15: the load fails, and nothing is written, whenever a line after the  *)
(* header, the whitespace at its two ends taken off, does not have exactly *)
(* three tab-separated fields or has a count that is no integer;           *)
(* otherwise the table maps every chromosome of the file to the counts of  *)
(* its last line.                                                          *)
C15_RejectsMalformedStrippedLine ==
    pc # "start"
        => IF \E i \in 1..Len(ploidy_file) :
                  \/ Len(PloidyFields(i)) # 3
                  \/ PloidyFields(i)[2] \notin Numerals
                  \/ PloidyFields(i)[3] \notin Numerals
           THEN LoadFailed
           ELSE error # "ploidy" /\ LoadedAsWritten

(* C15 witness: a line of three fields followed by a tab has been loaded   *)
(* after a line of the same chromosome, and a file with a line of two      *)
(* fields would have failed: here the table holds the later line.          *)
C15_Witness ==
    /\ pc = "builder"
    /\ ploidy_file = << <<"X", "0", "1">>, <<"X", "1", "2", "">> >>
    /\ chr_ploidy = << <<"X", <<1, 2>> >> >>

-----------------------------------------------------------------------------
(* The order, the columns and the header of the output annotation.         *)

(* The eligible features among the lines read so far, in file order *)
EligibleFeaturesRead ==
    SelectSeq(SubSeq(annot_file, 1, annot_idx),
              LAMBDA l : IsFeature(l) /\ Eligible(l.chrom))

(* C16: at every state of the streaming, and when the run has completed,   *)
(* the output holds after its header exactly one line for each eligible    *)
(* feature read so far, in the order of the input: every feature's line is *)
(* written by the step that reads it, before the next line is read, and    *)
(* no line is ever moved or taken back.                                    *)
C16_OutputInInputOrder ==
    pc \in {"annot", "done"}
        => /\ Len(updated_annot_file) = 1 + Len(EligibleFeaturesRead)
           /\ \A k \in 1..Len(EligibleFeaturesRead) :
                  /\ updated_annot_file[k + 1].chrom = EligibleFeaturesRead[k].chrom
                  /\ updated_annot_file[k + 1].transcriptID
                         = EligibleFeaturesRead[k].transcriptID

(* C16 witness: of three features read, the second on a chromosome the     *)
(* female sample does not have, the first and the third are in the output  *)
(* in that order, the first remapped, before the run has finished.         *)
C16_Witness ==
    /\ pc = "annot"
    /\ annot_idx = 3
    /\ gender = "female"
    /\ annot_file[1].transcriptID = "ENST1"
    /\ annot_file[2].transcriptID = "ENST4"
    /\ annot_file[3].transcriptID = "ENST3"
    /\ DictHas(indel_offsets, "1")
    /\ Len(updated_annot_file) = 3
    /\ updated_annot_file[2].transcriptID = "ENST1"
    /\ updated_annot_file[2] # annot_file[1]
    /\ updated_annot_file[3] = annot_file[3]

(* The feature just read lies on an eligible chromosome and was written *)
EligibleFeatureProcessed ==
    /\ LineProcessed
    /\ IsFeature(LastLine)
    /\ Eligible(LastLine.chrom)

(* C17: the line written for a feature has the columns of the feature,     *)
(* and its chrom, strand, exonCount, transcriptID, geneID, geneSymbol and   *)
(* biotype are those of the input line, on chromosomes with indels and on  *)
(* chromosomes without.                                                    *)
C17_OtherColumnsUnchanged ==
    EligibleFeatureProcessed
        => /\ DOMAIN LastWritten = DOMAIN LastLine
           /\ \A column \in {"chrom", "strand", "exonCount", "transcriptID",
                              "geneID", "geneSymbol", "biotype"} :
                  LastWritten[column] = LastLine[column]

(* C17 witness: a feature of a chromosome with indels has been written     *)
(* with its transcript end and an exon end moved.                          *)
C17_Witness ==
    /\ RemappedFeatureProcessed
    /\ LastWritten.txEnd # LastLine.txEnd
    /\ LastWritten.exonEnds # LastLine.exonEnds
    /\ LastWritten.geneID = LastLine.geneID

(* C18: once a run has opened its output, the first line of the output is  *)
(* the header and no other line of it is a header line, whether or not the *)
(* input has header lines and whether or not any feature is eligible.      *)
C18_OneHeaderFirst ==
    (pc \in {"annot", "done"} \/ (pc = "failed" /\ error = "stream"))
        => /\ updated_annot_file # <<>>
           /\ updated_annot_file[1] = HeaderLine
           /\ \A k \in 2..Len(updated_annot_file) :
                  ~StartsWithHash(updated_annot_file[k])

(* C18 witness: the input had a header line before and after its one       *)
(* eligible feature; the completed output is the header and that feature.  *)
C18_Witness ==
    /\ pc = "done"
    /\ Len(annot_file) = 3
    /\ StartsWithHash(annot_file[1])
    /\ IsFeature(annot_file[2])
    /\ StartsWithHash(annot_file[3])
    /\ Len(updated_annot_file) = 2
    /\ updated_annot_file[2].transcriptID = annot_file[2].transcriptID

-----------------------------------------------------------------------------
(* Runs repeated, and runs side by side.                                   *)

SameInputs(h) ==
    /\ h.ploidy_file = ploidy_file
    /\ h.indel_file = indel_file
    /\ h.annot_file = annot_file
    /\ h.missing = missing

(* C19: a run that has ended stopped where every earlier run of the job on *)
(* the same inputs stopped, and if it opened its output it left the same   *)
(* output annotation and the same log, whatever files the runs in between  *)
(* had left.                                                               *)
C19_SameInputsSameOutputs ==
    pc \in {"done", "failed"}
        => \A k \in 1..Len(history) :
               SameInputs(history[k])
                   => /\ history[k].pc = pc
                      /\ history[k].error = error
                      /\ error \in {"", "stream"}
                             => /\ history[k].updated_annot_file = updated_annot_file
                                /\ history[k].log_file = log_file

(* C19 witness: the third run of a job has completed on the inputs of the  *)
(* first; the second run, on another annotation, had left a different      *)
(* output; the third run's output and log are those of the first.          *)
C19_Witness ==
    /\ pc = "done"
    /\ run = 3
    /\ SameInputs(history[1])
    /\ history[2].pc = "done"
    /\ history[2].updated_annot_file # updated_annot_file
    /\ Len(updated_annot_file) >= 2
    /\ history[1].updated_annot_file = updated_annot_file
    /\ history[1].log_file = log_file

DifferentJobs ==
    other_sample_id # sample_id \/ other_suffix # genome_indel_suffix

OtherJobFiles ==
    <<FileExists(fs, other_annot_file_path),
      IF FileExists(fs, other_annot_file_path) THEN fs[other_annot_file_path]
      ELSE <<>>,
      FileExists(fs, other_log_file_path),
      IF FileExists(fs, other_log_file_path) THEN fs[other_log_file_path]
      ELSE <<>> >>

OtherStep == OtherOpenFiles \/ OtherProcessLine \/ OtherFinish

(* C20: two invocations that differ in sample id or genome copy and share  *)
(* the data and log directories have no file in common; no step of one     *)
(* changes a file of the other; and a run that has ended has the output,   *)
(* the log and the verdict of every other run of its job on the same       *)
(* inputs, those the other invocation wrote during and those it left       *)
(* alone.                                                                  *)
C20_ConcurrentJobsDoNotInterfere ==
    /\ [](DifferentJobs
             => {updated_annot_file_path, log_file_path}
                    \cap {other_annot_file_path, other_log_file_path} = {})
    /\ [][(DifferentJobs /\ OtherStep) => JobFiles' = JobFiles]_vars
    /\ [][(DifferentJobs /\ (Next \/ RunAgain)) => OtherJobFiles' = OtherJobFiles]_vars
    /\ []((DifferentJobs /\ pc \in {"done", "failed"})
             => \A k \in 1..Len(history) :
                    /\ history[k].pc = pc
                    /\ history[k].updated_annot_file = updated_annot_file
                    /\ history[k].log_file = log_file
                    /\ history[k].valid = Valid)

(* C20 witness: with one directory for data and logs, a run during which   *)
(* the invocation for the other genome copy of the same sample wrote and   *)
(* finished has completed with the output of the run before it, which ran  *)
(* undisturbed; both verdicts are true.                                    *)
C20_Witness ==
    /\ log_directory_path = data_directory_path
    /\ other_sample_id = sample_id
    /\ other_suffix # genome_indel_suffix
    /\ pc = "done"
    /\ disturbed
    /\ other_pc = "done"
    /\ history # <<>>
    /\ ~history[1].disturbed
    /\ history[1].updated_annot_file = updated_annot_file
    /\ Len(updated_annot_file) >= 2
    /\ Valid
    /\ IsOutputValid(fs, data_directory_path, log_directory_path,
                     other_sample_id, other_suffix)

-----------------------------------------------------------------------------
(* Where the two files are.                                                *)

(* <data directory>/sample<id>/updated_annotation_<genome copy>.txt *)
DocumentedAnnotationPath ==
    <<data_directory_path, "sample", sample_id, "updated_annotation_",
      genome_indel_suffix, ".txt">>

(* <log directory>/sample<id>/UpdateAnnotationForGenomeStep_<genome copy>.log *)
DocumentedLogPath ==
    <<log_directory_path, "sample", sample_id, "UpdateAnnotationForGenomeStep_",
      genome_indel_suffix, ".log">>

(* C21: once a run has opened its files, the updated annotation (header    *)
(* first) is the file <data directory>/sample<id>/updated_annotation_<genome*)
(* copy>.txt and the log, which carries the sentinel when the run has      *)
(* completed, is <log directory>/sample<id>/UpdateAnnotationForGenomeStep_ *)
(* <genome copy>.log; is_output_valid reads these same two paths.          *)
C21_FilesAtDocumentedPaths ==
    /\ pc \in {"annot", "done"}
           => /\ FileExists(fs, DocumentedAnnotationPath)
              /\ fs[DocumentedAnnotationPath][1] = HeaderLine
              /\ FileExists(fs, DocumentedLogPath)
              /\ pc = "done" => EndsWithSentinel(fs[DocumentedLogPath])
    /\ Valid <=> /\ FileExists(fs, DocumentedAnnotationPath)
                 /\ FileExists(fs, DocumentedLogPath)
                 /\ EndsWithSentinel(fs[DocumentedLogPath])

-----------------------------------------------------------------------------
(* The order of an offset table.                                           *)

(* Within every chromosome the positions of the indels read so far are     *)
(* strictly increasing; the chromosomes may be interleaved                 *)
IncreasingPerChromosome(indels) ==
    \A i \in 1..Len(indels) :
        StrictlyIncreasing(ChromIndels(indels, indels[i].chrom))

IncreasingList(list) == \A i \in 1..(Len(list) - 1) : list[i] < list[i + 1]

(* C22: while and after the builder reads an indel stream whose positions  *)
(* are strictly increasing within each chromosome, the table of every      *)
(* chromosome read so far holds the positions of that chromosome's indels, *)
(* one entry for each, in strictly increasing order; and the list of       *)
(* positions the rewriter holds for the predecessor search is strictly     *)
(* increasing.                                                             *)
C22_TablePositionsIncreasing ==
    /\ (pc \in {"indels", "annot", "done"} /\ IncreasingPerChromosome(IndelsRead))
           => /\ \A i \in 1..indel_idx :
                     LET chrom == indel_file[i].chrom
                         own == ChromIndels(IndelsRead, chrom)
                     IN /\ DictHas(variant_offsets, chrom)
                        /\ DictKeys(DictGet(variant_offsets, chrom))
                               = [k \in 1..Len(own) |-> own[k].pos]
                        /\ IncreasingList(DictKeys(DictGet(variant_offsets, chrom)))
              /\ \A t \in 1..Len(variant_offsets) :
                     \E i \in 1..indel_idx : indel_file[i].chrom = variant_offsets[t][1]
    /\ (pc \in {"annot", "done"} /\ IncreasingPerChromosome(indel_file))
           => IncreasingList(current_chrom_variant_coords)

(* C22 witness: the two indels of chromosome 1 stand on either side of an  *)
(* indel of chromosome X; the run has handed the rewriter the positions of *)
(* chromosome 1 in increasing order.                                       *)
C22_Witness ==
    /\ pc = "done"
    /\ Len(indel_file) = 3
    /\ indel_file[1].chrom = "1"
    /\ indel_file[2].chrom = "X"
    /\ indel_file[3].chrom = "1"
    /\ indel_file[1].pos < indel_file[3].pos
    /\ current_chrom_variant_coords = <<indel_file[1].pos, indel_file[3].pos>>

-----------------------------------------------------------------------------
(* The remapping context after a chromosome transition.                    *)

(* C23: after a line that moved the rewriter to another chromosome, the    *)
(* list of positions and the list of offsets are those of the new          *)
(* chromosome's offset table, and both are empty when the new chromosome   *)
(* has no table; as the lists change at transitions only, this holds after *)
(* every feature line.                                                     *)
C23_ContextIsThatOfCurrentChromosome ==
    (pc \in {"annot", "done"} /\ current_chrom # "")
        => IF DictHas(indel_offsets, current_chrom)
           THEN /\ current_chrom_variant_coords
                       = DictKeys(DictGet(indel_offsets, current_chrom))
                /\ current_chrom_variant_offsets
                       = DictValues(DictGet(indel_offsets, current_chrom))
           ELSE /\ current_chrom_variant_coords = <<>>
                /\ current_chrom_variant_offsets = <<>>

-----------------------------------------------------------------------------
(* C24: the line written for a feature has as many exon starts and as many *)
(* exon ends as the input line, and the exonCount column of the input, in  *)
(* every remapping branch; so a feature with len(exon_starts) =            *)
(* len(exon_ends) = exon_count on input has it on output.                  *)
C24_ExonCountsPreserved ==
    EligibleFeatureProcessed
        => /\ Len(LastWritten.exonStarts) = Len(LastLine.exonStarts)
           /\ Len(LastWritten.exonEnds) = Len(LastLine.exonEnds)
           /\ LastWritten.exonCount = LastLine.exonCount
           /\ (/\ Len(LastLine.exonStarts) = LastLine.exonCount
               /\ Len(LastLine.exonEnds) = LastLine.exonCount)
                  => /\ Len(LastWritten.exonStarts) = LastWritten.exonCount
                     /\ Len(LastWritten.exonEnds) = LastWritten.exonCount

(* C24 witness: a feature of two exons, the transcript start before the    *)
(* first indel and the second exon after it, is written with two exon      *)
(* starts and two exon ends, the second exon moved and the first not.      *)
C24_Witness ==
    /\ RemappedFeatureProcessed
    /\ LastLine.exonCount = 2
    /\ Len(LastLine.exonStarts) = 2
    /\ Len(LastLine.exonEnds) = 2
    /\ Len(LastWritten.exonStarts) = 2
    /\ Len(LastWritten.exonEnds) = 2
    /\ LastWritten.exonStarts[1] = LastLine.exonStarts[1]
    /\ LastWritten.exonStarts[2] # LastLine.exonStarts[2]
    /\ LastWritten.exonEnds[2] # LastLine.exonEnds[2]

-----------------------------------------------------------------------------
(* The indexes with which lines 163-213 subscript the offset list while    *)
(* remapping line_data: none in the first branch, checked ones in the      *)
(* second, the transcript's one in the third, and in the last the two of   *)
(* the transcript and that of every exon coordinate as the search gave it  *)
OffsetIndexesUsed(line_data, coords) ==
    LET tx_start_offset_index == OffsetIndex(coords, line_data.txStart)
        tx_end_offset_index == OffsetIndex(coords, line_data.txEnd)
        exon_indexes ==
            {OffsetIndex(coords, line_data.exonStarts[i]) :
                 i \in 1..Len(line_data.exonStarts)}
            \cup {OffsetIndex(coords, line_data.exonEnds[i]) :
                      i \in 1..Len(line_data.exonEnds)}
    IN IF tx_start_offset_index = -1
       THEN IF tx_end_offset_index = -1
            THEN {}
            ELSE {tx_end_offset_index} \cup {i \in exon_indexes : i >= 0}
       ELSE IF tx_start_offset_index = tx_end_offset_index
            THEN {tx_start_offset_index}
            ELSE {tx_start_offset_index, tx_end_offset_index}
                     \cup exon_indexes

ExonsNotBeforeStart(f) ==
    /\ \A i \in 1..Len(f.exonStarts) : f.txStart <= f.exonStarts[i]
    /\ \A i \in 1..Len(f.exonEnds) : f.txStart <= f.exonEnds[i]

(* C25: while a feature whose exon coordinates are all >= tx_start is      *)
(* remapped, every index used on the offset list is in 0..len-1; the -1    *)
(* of a search that found no predecessor is never used as an index.        *)
C25_IndexInRange ==
    (RemappedFeatureProcessed /\ ExonsNotBeforeStart(LastLine))
        => \A i \in OffsetIndexesUsed(LastLine, current_chrom_variant_coords) :
               0 <= i /\ i <= Len(current_chrom_variant_offsets) - 1

-----------------------------------------------------------------------------
(* The line a feature of an eligible chromosome gets when it is taken      *)
(* alone: remapped through the table of its own chromosome, as it is when  *)
(* the chromosome has none                                                 *)
LineOfFeatureAlone(f) ==
    IF DictHas(indel_offsets, f.chrom)
    THEN FormatLine(f, UpdateCoordinates(f,
             DictKeys(DictGet(indel_offsets, f.chrom)),
             DictValues(DictGet(indel_offsets, f.chrom))))
    ELSE f

(* C26: the line written for a feature depends only on the feature, the    *)
(* offset table of its chromosome and the eligibility of its chromosome,   *)
(* not on the lines read before it; an annotation whose chromosomes are    *)
(* not contiguous gets, feature by feature, the lines of the grouped one.  *)
C26_LineDependsOnFeatureAlone ==
    pc \in {"annot", "done"}
        => /\ Len(updated_annot_file) = 1 + Len(EligibleFeaturesRead)
           /\ \A k \in 1..Len(EligibleFeaturesRead) :
                  updated_annot_file[k + 1]
                      = LineOfFeatureAlone(EligibleFeaturesRead[k])

(* C26 witness: chromosome 1, then X, then 1 again; 1 has indels and X     *)
(* has none. The two features of chromosome 1 are remapped, the feature of *)
(* X between them is copied.                                               *)
C26_Witness ==
    /\ pc = "done"
    /\ Len(annot_file) = 3
    /\ annot_file[1].chrom = "1"
    /\ annot_file[2].chrom = "X"
    /\ annot_file[3].chrom = "1"
    /\ annot_file[1] # annot_file[3]
    /\ DictHas(indel_offsets, "1")
    /\ ~DictHas(indel_offsets, "X")
    /\ Len(updated_annot_file) = 4
    /\ updated_annot_file[2] # annot_file[1]
    /\ updated_annot_file[3] = annot_file[2]
    /\ updated_annot_file[4] # annot_file[3]
    /\ updated_annot_file[4] = LineOfFeatureAlone(annot_file[3])

-----------------------------------------------------------------------------
(* A line of the annotation that begins with '#' *)
HashLine(line) == line.chrom \in HashNames

(* C27: the step that reads an annotation line beginning with '#',         *)
(* wherever the line is in the file, writes nothing to the output and      *)
(* leaves the current chromosome and the two context lists as they were.   *)
C27_HashLinesSkipped ==
    [][(/\ pc = "annot"
        /\ annot_idx < Len(annot_file)
        /\ annot_idx' = annot_idx + 1
        /\ HashLine(annot_file[annot_idx + 1]))
           => /\ updated_annot_file' = updated_annot_file
              /\ log_file' = log_file
              /\ current_chrom' = current_chrom
              /\ current_chrom_variant_coords' = current_chrom_variant_coords
              /\ current_chrom_variant_offsets' = current_chrom_variant_offsets
              /\ pc' = pc]_vars

(* C27 witness: a commented-out feature after a feature of chromosome 1,   *)
(* which has indels, has been read; the output has the header and the one  *)
(* feature, and chromosome 1 with its context is still current.            *)
C27_Witness ==
    /\ pc = "annot"
    /\ annot_idx = 2
    /\ annot_file[1].chrom = "1"
    /\ annot_file[2] = CommentedFeature
    /\ current_chrom = "1"
    /\ current_chrom_variant_coords # <<>>
    /\ current_chrom_variant_coords = DictKeys(DictGet(indel_offsets, "1"))
    /\ Len(updated_annot_file) = 2
    /\ Len(log_file) = 1

-----------------------------------------------------------------------------
(* C28: the female column of the ploidy table decides eligibility only     *)
(* when sample.gender is exactly "female"; for every other value, a        *)
(* missing one and other spellings and capitalisations included, the male  *)
(* column decides, and no error is raised: the load fails only on a        *)
(* malformed ploidy file.                                                  *)
C28_FemaleColumnOnlyForExactFemale ==
    pc # "start"
        => /\ error = "ploidy"
                  => \E i \in 1..Len(ploidy_file) :
                         \/ Len(PloidyFields(i)) # 3
                         \/ PloidyFields(i)[2] \notin Numerals
                         \/ PloidyFields(i)[3] \notin Numerals
           /\ error # "ploidy"
                  => \A i \in 1..Len(ploidy_file) :
                         LET chrom == PloidyFields(i)[1]
                             row == PloidyRow(chrom)
                         IN InList(chrom, desired_chromosomes)
                                <=> IF gender = "female"
                                    THEN row[3] >= genome_indel_suffix
                                    ELSE row[2] >= genome_indel_suffix

(* C28 witness: a run whose sample has gender "Female" has completed at    *)
(* copy 2 with a table that gives X one male and two female copies: X is   *)
(* not eligible and its feature is not in the output.                      *)
C28_Witness ==
    /\ pc = "done"
    /\ gender = "Female"
    /\ genome_indel_suffix = 2
    /\ ploidy_file = << <<"X", "1", "2">> >>
    /\ desired_chromosomes = <<>>
    /\ Len(updated_annot_file) = 1

(* C28 second witness: the same for a sample without gender, with a table  *)
(* that gives X two male copies and no female copy: X is eligible.         *)
C28_WitnessMissingGender ==
    /\ pc = "done"
    /\ gender = None
    /\ genome_indel_suffix = 2
    /\ ploidy_file = << <<"X", "2", "0">> >>
    /\ desired_chromosomes = <<"X">>
    /\ Len(updated_annot_file) = 2

-----------------------------------------------------------------------------
(* Every indel of the file is an insertion *)
InsertionsOnly == \A i \in 1..Len(indel_file) : indel_file[i].type = "I"

(* The exons of a line that has a start and an end *)
ExonPairs(f) ==
    {i \in 1..Len(f.exonStarts) : i <= Len(f.exonEnds)}

(* tx_start <= tx_end and every exon start <= its exon end *)
Ordered(f) ==
    /\ f.txStart <= f.txEnd
    /\ \A i \in ExonPairs(f) : f.exonStarts[i] <= f.exonEnds[i]

(* The coordinates of a line *)
CoordinatesOf(f) ==
    {f.txStart, f.txEnd}
        \cup {f.exonStarts[i] : i \in 1..Len(f.exonStarts)}
        \cup {f.exonEnds[i] : i \in 1..Len(f.exonEnds)}

(* No coordinate of line `out` is below the coordinate of `f` it comes from *)
NotDecreased(f, out) ==
    /\ f.txStart <= out.txStart
    /\ f.txEnd <= out.txEnd
    /\ \A i \in 1..Len(f.exonStarts) : f.exonStarts[i] <= out.exonStarts[i]
    /\ \A i \in 1..Len(f.exonEnds) : f.exonEnds[i] <= out.exonEnds[i]

(* C29: when the indels of a chromosome, in strictly increasing position   *)
(* order, are all insertions, no coordinate of a feature is decreased and  *)
(* the order of coordinates is kept: a feature with tx_start <= tx_end and *)
(* every exon start <= its exon end is written with tx_start <= tx_end,    *)
(* every exon start <= its exon end and no negative coordinate.            *)
C29_InsertionsKeepOrder ==
    (/\ RemappedFeatureProcessed
     /\ InsertionsOnly
     /\ StrictlyIncreasing(indel_file)
     /\ Ordered(LastLine))
        => /\ NotDecreased(LastLine, LastWritten)
           /\ Ordered(LastWritten)
           /\ \A c \in CoordinatesOf(LastWritten) : c >= 0

====
